---------------------------- MODULE Spec2Model ----------------------------
(***************************************************************************)
(* A model of the CHIP-8 interpreter of chip8/src/lib.rs and of the host   *)
(* loop of sdl/src/main.rs that drives it.                                 *)
(*                                                                         *)
(* The interpreter state (struct Chip8) is the record held by the variable *)
(* chip8.  Every op_* handler of the source is an operator from a Chip8    *)
(* record to an Outcome record: the new Chip8 record, the returned cost    *)
(* and whether the handler returned, or panicked (an index out of range,   *)
(* an unwrap of None, an arithmetic overflow in a build that checks it).   *)
(* frame() is unfolded into its loop iterations: FrameBegin is lines 87-93 *)
(* of lib.rs, Step one iteration of the while loop, FrameEnd the return.   *)
(***************************************************************************)
EXTENDS Integers, Sequences, FiniteSets, TLC

\* ------------------------------------------------------------ constants

MEMORY_SIZE == 4096
RESERVED_MEMORY_SIZE == 512
REGISTERS == 16
FRAME_DURATION == 16666
DISPLAY_WIDTH == 64
DISPLAY_HEIGHT == 32
DISPLAY_SIZE == (DISPLAY_WIDTH * DISPLAY_HEIGHT) \div 8

FONT ==
  << 240, 144, 144, 144, 240,  32,  96,  32,  32, 112,
     240,  16, 240, 128, 240, 240,  16, 240,  16, 240,
     144, 144, 240,  16,  16, 240, 128, 240,  16, 240,
     240, 128, 240, 144, 240, 240,  16,  32,  64,  64,
     240, 144, 240, 144, 240, 240, 144, 240,  16, 240,
     240, 144, 240, 144, 144, 224, 144, 224, 144, 224,
     240, 128, 128, 128, 240, 224, 144, 144, 144, 224,
     240, 128, 240, 128, 240, 240, 128, 240, 128, 128 >>

\* The bounds of the model.
MaxFrames == 3
MaxStack == 4

\* ------------------------------------------------- machine arithmetic

\* Bit k of v (bit 0 is the least significant).
Bit(v, k) == (v \div (2 ^ k)) % 2

RECURSIVE BitAnd(_, _)
BitAnd(a, b) ==
  IF a = 0 \/ b = 0 THEN 0
  ELSE (a % 2) * (b % 2) + 2 * BitAnd(a \div 2, b \div 2)

RECURSIVE BitOr(_, _)
BitOr(a, b) ==
  IF a = 0 THEN b
  ELSE IF b = 0 THEN a
  ELSE (IF a % 2 = 1 \/ b % 2 = 1 THEN 1 ELSE 0) + 2 * BitOr(a \div 2, b \div 2)

RECURSIVE BitXor(_, _)
BitXor(a, b) ==
  IF a = 0 THEN b
  ELSE IF b = 0 THEN a
  ELSE ((a + b) % 2) + 2 * BitXor(a \div 2, b \div 2)

\* u8 << n and u8 >> n for a shift amount below the width: bits shifted out
\* are dropped.
Shl8(v, n) == (v * (2 ^ n)) % 256
Shr8(v, n) == v \div (2 ^ n)

\* The macros nnn!, lo!, hi!.
nnn(op0, op1) == BitOr(BitAnd(op0, 15) * 256, op1)
lo(op0) == BitAnd(op0, 15)
hi(op0) == Shr8(BitAnd(op0, 240), 4)

\* ------------------------------------------------------------ outcomes

\* What a handler hands back to step(): it returned a cost, or it panicked
\* with the state as the panic left it.
Returned(self, cost) == [kind |-> "ok", cost |-> cost, self |-> self]
Panicked(self) == [kind |-> "panic", cost |-> 0, self |-> self]
\* step()'s early return Err(format!("Invalid op ...")).
InvalidOp(self) == [kind |-> "invalid", cost |-> 0, self |-> self]

\* ------------------------------------------------------- construction

new ==
  [ memory |-> [a \in 0..(MEMORY_SIZE - 1) |-> IF a < Len(FONT) THEN FONT[a + 1] ELSE 0],
    pc |-> RESERVED_MEMORY_SIZE,
    i |-> 0,
    stack |-> << >>,
    delay_timer |-> 0,
    sound_timer |-> 0,
    registers |-> [r \in 0..(REGISTERS - 1) |-> 0],
    display |-> [d \in 0..(DISPLAY_SIZE - 1) |-> 0],
    keypad |-> 0 ]

\* A variant of load_rom that refuses a ROM that fills the memory exactly.
load_rom_strict(self, rom) ==
  IF Len(rom) >= MEMORY_SIZE - RESERVED_MEMORY_SIZE
  THEN [ok |-> FALSE, self |-> self]
  ELSE [ok |-> TRUE,
        self |-> [self EXCEPT !.memory =
                    [a \in 0..(MEMORY_SIZE - 1) |->
                       IF a >= RESERVED_MEMORY_SIZE /\ a < RESERVED_MEMORY_SIZE + Len(rom)
                       THEN rom[a - RESERVED_MEMORY_SIZE + 1]
                       ELSE self.memory[a]]]]

\* load_rom copying to the start of the memory instead of the program region.
load_rom_at_zero(self, rom) ==
  IF Len(rom) > MEMORY_SIZE - RESERVED_MEMORY_SIZE
  THEN [ok |-> FALSE, self |-> self]
  ELSE [ok |-> TRUE,
        self |-> [self EXCEPT !.memory =
                    [a \in 0..(MEMORY_SIZE - 1) |->
                       IF a < Len(rom) THEN rom[a + 1] ELSE self.memory[a]]]]

\* load_rom: [ok |-> FALSE] is Err("not enough memory to load rom").
load_rom(self, rom) ==
  IF Len(rom) > MEMORY_SIZE - RESERVED_MEMORY_SIZE
  THEN [ok |-> FALSE, self |-> self]
  ELSE [ok |-> TRUE,
        self |-> [self EXCEPT !.memory =
                    [a \in 0..(MEMORY_SIZE - 1) |->
                       IF a >= RESERVED_MEMORY_SIZE /\ a < RESERVED_MEMORY_SIZE + Len(rom)
                       THEN rom[a - RESERVED_MEMORY_SIZE + 1]
                       ELSE self.memory[a]]]]


\* ------------------------------------------------- operation handlers

Reg(self, vx) == self.registers[vx]
SetReg(self, vx, v) == [self EXCEPT !.registers[vx] = v]

\* A clear screen that clears the upper half of the display only.
op_cls_upper(self) ==
  Returned([self EXCEPT !.display =
              [d \in 0..(DISPLAY_SIZE - 1) |->
                 IF d < DISPLAY_SIZE \div 2 THEN 0 ELSE self.display[d]]], 109)

\* 00e0
op_cls(self) ==
  Returned([self EXCEPT !.display = [d \in 0..(DISPLAY_SIZE - 1) |-> 0]], 109)

\* A return that takes the oldest address of the stack.
op_ret_oldest(self) ==
  IF Len(self.stack) = 0 THEN Panicked(self)
  ELSE Returned([self EXCEPT !.pc = self.stack[1], !.stack = Tail(self.stack)], 105)

\* 00ee: stack.pop().unwrap() panics on the empty stack.
op_ret(self) ==
  IF Len(self.stack) = 0 THEN Panicked(self)
  ELSE Returned([self EXCEPT !.pc = self.stack[Len(self.stack)],
                             !.stack = SubSeq(self.stack, 1, Len(self.stack) - 1)], 105)

\* A jump that lands one instruction past its target.
op_jp_past(self, addr) == Returned([self EXCEPT !.pc = addr + 2], 105)

\* 1nnn
op_jp(self, addr) == Returned([self EXCEPT !.pc = addr], 105)

\* 2nnn
op_call(self, addr) ==
  Returned([self EXCEPT !.stack = Append(self.stack, self.pc), !.pc = addr], 105)

\* 3xnn
op_se(self, vx, byte) ==
  IF Reg(self, vx) = byte THEN Returned([self EXCEPT !.pc = self.pc + 2], 64)
  ELSE Returned(self, 46)

\* 4xnn
op_sne(self, vx, byte) ==
  IF Reg(self, vx) # byte THEN Returned([self EXCEPT !.pc = self.pc + 2], 64)
  ELSE Returned(self, 46)

\* 5xy0
op_sexy(self, vx, vy) ==
  IF Reg(self, vx) = Reg(self, vy) THEN Returned([self EXCEPT !.pc = self.pc + 2], 82)
  ELSE Returned(self, 64)

\* A load that costs nothing.
op_ld_free(self, vx, byte) == Returned(SetReg(self, vx, byte), 0)

\* 6xnn
op_ld(self, vx, byte) == Returned(SetReg(self, vx, byte), 27)

\* 7xnn
op_add(self, vx, byte) == Returned(SetReg(self, vx, (Reg(self, vx) + byte) % 256), 45)

\* 8xy0
op_ldxy(self, vx, vy) == Returned(SetReg(self, vx, Reg(self, vy)), 200)

\* 8xy1
op_orxy(self, vx, vy) ==
  Returned(SetReg(self, vx, BitOr(Reg(self, vx), Reg(self, vy))), 200)

\* 8xy2
op_andxy(self, vx, vy) ==
  Returned(SetReg(self, vx, BitAnd(Reg(self, vx), Reg(self, vy))), 200)

\* 8xy3
op_xorxy(self, vx, vy) ==
  Returned(SetReg(self, vx, BitXor(Reg(self, vx), Reg(self, vy))), 200)

\* A variant of op_addxy whose carry is off by one.
op_addxy_carry_early(self, vx, vy) ==
  LET sum == Reg(self, vx) + Reg(self, vy)
      result == sum % 256
      overflows == sum >= 255
  IN Returned(SetReg(SetReg(self, vx, result), 15, IF overflows THEN 1 ELSE 0), 200)

\* 8xy4: registers[vx] is written first, registers[0xf] after it.
op_addxy(self, vx, vy) ==
  LET sum == Reg(self, vx) + Reg(self, vy)
      result == sum % 256
      overflows == sum > 255
  IN Returned(SetReg(SetReg(self, vx, result), 15, IF overflows THEN 1 ELSE 0), 200)

\* 8xy5
op_subxy(self, vx, vy) ==
  LET diff == Reg(self, vx) - Reg(self, vy)
      result == diff % 256
      overflows == diff < 0
  IN Returned(SetReg(SetReg(self, vx, result), 15, IF overflows THEN 0 ELSE 1), 200)

\* 8xy6
op_shrxy(self, vx) ==
  LET x == Reg(self, vx)
  IN Returned(SetReg(SetReg(self, vx, Shr8(x, 1)), 15, BitAnd(x, 1)), 200)

\* A variant of op_subnxy that subtracts the way op_subxy does.
op_subnxy_unswapped(self, vx, vy) ==
  LET diff == Reg(self, vx) - Reg(self, vy)
      result == diff % 256
      overflows == diff < 0
  IN Returned(SetReg(SetReg(self, vx, result), 15, IF overflows THEN 0 ELSE 1), 200)

\* 8xy7
op_subnxy(self, vx, vy) ==
  LET diff == Reg(self, vy) - Reg(self, vx)
      result == diff % 256
      overflows == diff < 0
  IN Returned(SetReg(SetReg(self, vx, result), 15, IF overflows THEN 0 ELSE 1), 200)

\* 8xyE
op_shlxy(self, vx) ==
  LET x == Reg(self, vx)
  IN Returned(SetReg(SetReg(self, vx, Shl8(x, 1)), 15, Shr8(BitAnd(x, 128), 7)), 200)

\* 9xy0
op_snexy(self, vx, vy) ==
  IF Reg(self, vx) # Reg(self, vy) THEN Returned([self EXCEPT !.pc = self.pc + 2], 82)
  ELSE Returned(self, 64)

\* Annn
op_ldi(self, addr) == Returned([self EXCEPT !.i = addr], 55)

\* Bnnn
op_jp0(self, addr) == Returned([self EXCEPT !.pc = addr + Reg(self, 0)], 105)

\* Cxkk: r is the byte the generator yields.
op_rndx(self, vx, byte, r) == Returned(SetReg(self, vx, BitAnd(r, byte)), 164)

\* A variant of display_column_right_of that stops at the right edge.
display_column_right_clamped(display_column_left) ==
  IF display_column_left + 1 >= DISPLAY_WIDTH \div 8 THEN display_column_left
  ELSE display_column_left + 1

\* Dxyn, line 372: the display column right of the left one, wrapping.
display_column_right_of(display_column_left) ==
  (display_column_left + 1) % (DISPLAY_WIDTH \div 8)

\* Dxyn, line 376: the display row of sprite row idx, wrapping.
display_y_of(y, idx) == (y + idx) % DISPLAY_HEIGHT

\* A variant of drw_blend that sets pixels and never clears one.
drw_blend_or(old, shifted) == BitOr(old, shifted)

\* Dxyn, lines 381-382 and 387-388: *prev ^= shifted.
drw_blend(old, shifted) == BitXor(old, shifted)

\* Dxyn, lines 383 and 389: prev |= *prev & shifted, read after the blend.
drw_collide(prev, blended, shifted) == BitOr(prev, BitAnd(blended, shifted))

\* Dxyn, the loop over the sprite rows: the rows idx..nibble-1 are drawn onto
\* display; prev accumulates the collision byte.  Reading memory[i + idx] past
\* the end of the memory panics with the rows drawn so far.
RECURSIVE drw_rows(_, _, _, _, _, _, _)
drw_rows(self, display, prev, idx, nibble, x, y) ==
  IF idx >= nibble THEN [kind |-> "ok", display |-> display, prev |-> prev]
  ELSE IF self.i + idx >= MEMORY_SIZE
  THEN [kind |-> "panic", display |-> display, prev |-> prev]
  ELSE
    LET display_x == x % DISPLAY_WIDTH
        shift == x % 8
        display_column_left == display_x \div 8
        display_column_right == display_column_right_of(display_column_left)
        display_y == display_y_of(y, idx)
        row == (display_y * DISPLAY_WIDTH) \div 8
        byte == self.memory[self.i + idx]
        shifted_left == Shr8(byte, shift)
        new_left == drw_blend(display[row + display_column_left], shifted_left)
        display1 == [display EXCEPT ![row + display_column_left] = new_left]
        prev1 == drw_collide(prev, new_left, shifted_left)
        shifted_right == Shl8(byte, 8 - shift)
        new_right == drw_blend(display1[row + display_column_right], shifted_right)
        display2 == IF shift > 0
                    THEN [display1 EXCEPT ![row + display_column_right] = new_right]
                    ELSE display1
        prev2 == IF shift > 0 THEN drw_collide(prev1, new_right, shifted_right)
                 ELSE prev1
    IN drw_rows(self, display2, prev2, idx + 1, nibble, x, y)

\* Dxyn
op_drw(self, vx, vy, nibble) ==
  LET x == Reg(self, vx)
      y == Reg(self, vy)
      drawn == drw_rows(self, self.display, 0, 0, nibble, x, y)
  IN IF drawn.kind = "panic" THEN Panicked([self EXCEPT !.display = drawn.display])
     ELSE Returned([self EXCEPT !.display = drawn.display,
                                !.registers[15] = IF drawn.prev # 0 THEN 1 ELSE 0],
                   22734)

\* (1 as u16) << x: a shift by 16 or more overflows.  A build with overflow
\* checks panics; one without them shifts by x mod 16.
KeyMask(x) == 2 ^ (x % 16)

\* Ex9E
op_skpx(self, vx, checks) ==
  LET x == Reg(self, vx)
  IN IF x >= 16 /\ checks THEN Panicked(self)
     ELSE IF BitAnd(self.keypad, KeyMask(x)) # 0
     THEN Returned([self EXCEPT !.pc = self.pc + 2], 64)
     ELSE Returned(self, 82)

\* ExA1 that skips when the key is pressed.
op_sknpx_pressed(self, vx, checks) ==
  LET x == Reg(self, vx)
  IN IF x >= 16 /\ checks THEN Panicked(self)
     ELSE IF BitAnd(self.keypad, KeyMask(x)) # 0
     THEN Returned([self EXCEPT !.pc = self.pc + 2], 64)
     ELSE Returned(self, 82)

\* ExA1
op_sknpx(self, vx, checks) ==
  LET x == Reg(self, vx)
  IN IF x >= 16 /\ checks THEN Panicked(self)
     ELSE IF BitAnd(self.keypad, KeyMask(x)) = 0
     THEN Returned([self EXCEPT !.pc = self.pc + 2], 64)
     ELSE Returned(self, 82)

\* Fx07
op_ldxdt(self, vx) == Returned(SetReg(self, vx, self.delay_timer), 45)

\* A variant of ldxk_scan that stores the highest key that is down.
RECURSIVE ldxk_scan_down(_, _, _)
ldxk_scan_down(self, vx, i) ==
  IF i >= 16
  THEN Returned([self EXCEPT !.pc = self.pc - 2], FRAME_DURATION)
  ELSE IF BitAnd(2 ^ (15 - i), self.keypad) # 0
  THEN Returned(SetReg(self, vx, 15 - i), 200)
  ELSE ldxk_scan_down(self, vx, i + 1)

\* Fx0A, the scan for i in 0..16 from key i up: the first key down is stored.
RECURSIVE ldxk_scan(_, _, _)
ldxk_scan(self, vx, i) ==
  IF i >= 16
  THEN Returned([self EXCEPT !.pc = self.pc - 2], FRAME_DURATION)
  ELSE IF BitAnd(2 ^ i, self.keypad) # 0
  THEN Returned(SetReg(self, vx, i), 200)
  ELSE ldxk_scan(self, vx, i + 1)

\* A variant of op_ldxk that charges an ordinary instruction's cost when no key
\* is down.
op_ldxk_cheap(self, vx) ==
  LET scanned == ldxk_scan(self, vx, 0)
  IN IF scanned.cost = FRAME_DURATION THEN Returned(scanned.self, 200) ELSE scanned

\* Fx0A
op_ldxk(self, vx) == ldxk_scan(self, vx, 0)

\* Fx15
op_lddtx(self, vx) == Returned([self EXCEPT !.delay_timer = Reg(self, vx)], 45)

\* Fx18
op_ldstx(self, vx) == Returned([self EXCEPT !.sound_timer = Reg(self, vx)], 45)

\* Fx1e
op_addix(self, vx) ==
  Returned([self EXCEPT !.i = (self.i + Reg(self, vx)) % 65536], 86)

\* Fx29
op_ldfx(self, vx) == Returned([self EXCEPT !.i = Reg(self, vx) * 5], 91)

\* The writes memory[base + k] = bytes[k + 1], k = from.., in order; the first
\* one past the end of the memory panics with the earlier ones done.
RECURSIVE store_bytes(_, _, _, _)
store_bytes(memory, base, bytes, from) ==
  IF from >= Len(bytes) THEN [kind |-> "ok", memory |-> memory]
  ELSE IF base + from >= MEMORY_SIZE THEN [kind |-> "panic", memory |-> memory]
  ELSE store_bytes([memory EXCEPT ![base + from] = bytes[from + 1]], base, bytes, from + 1)

\* Fx33
op_ldbx(self, vx) ==
  LET x == Reg(self, vx)
      first == x \div 100
      second == (x \div 10) % 10
      third == x % 10
      stored == store_bytes(self.memory, self.i, <<first, second, third>>, 0)
  IN IF stored.kind = "panic" THEN Panicked([self EXCEPT !.memory = stored.memory])
     ELSE Returned([self EXCEPT !.memory = stored.memory],
                   364 + (first + second + third) * 73)

\* A bulk store that stops before V[x].
op_ldix_exclusive(self, vx) ==
  LET stored == store_bytes(self.memory, self.i, [k \in 1..vx |-> Reg(self, k - 1)], 0)
  IN IF stored.kind = "panic" THEN Panicked([self EXCEPT !.memory = stored.memory])
     ELSE Returned([self EXCEPT !.memory = stored.memory], 64 * (vx + 2))

\* Fx55
op_ldix(self, vx) ==
  LET stored == store_bytes(self.memory, self.i, [k \in 1..(vx + 1) |-> Reg(self, k - 1)], 0)
  IN IF stored.kind = "panic" THEN Panicked([self EXCEPT !.memory = stored.memory])
     ELSE Returned([self EXCEPT !.memory = stored.memory], 64 * (vx + 2))

\* Fx65, the loop for i in 0..(vx + 1).
RECURSIVE ldxi_loop(_, _, _)
ldxi_loop(self, vx, i) ==
  IF i >= vx + 1 THEN Returned(self, 64 * (vx + 2))
  ELSE IF i + self.i >= MEMORY_SIZE THEN Panicked(self)
  ELSE ldxi_loop(SetReg(self, i, self.memory[i + self.i]), vx, i + 1)

\* Fx65
op_ldxi(self, vx) == ldxi_loop(self, vx, 0)

\* ------------------------------------------------------------- dispatch

\* step(op0, op1): the match on op0 & 0xf0 and, in the groups 0, 8, E and F,
\* on op1.  The arm written 0xB can never equal op0 & 0xf0, so a Bnnn opcode
\* falls to the last arm.  r is the byte the random generator would yield,
\* checks whether the build checks arithmetic overflow.
step(self, op0, op1, r, checks) ==
  LET group == BitAnd(op0, 240)
      sub == BitAnd(op1, 15)
  IN CASE group = 0 ->
            (CASE op1 = 224 -> op_cls(self)
               [] op1 = 238 -> op_ret(self)
               [] OTHER -> InvalidOp(self))
       [] group = 16 -> op_jp(self, nnn(op0, op1))
       [] group = 32 -> op_call(self, nnn(op0, op1))
       [] group = 48 -> op_se(self, lo(op0), op1)
       [] group = 64 -> op_sne(self, lo(op0), op1)
       [] group = 80 -> op_sexy(self, lo(op0), hi(op1))
       [] group = 96 -> op_ld(self, lo(op0), op1)
       [] group = 112 -> op_add(self, lo(op0), op1)
       [] group = 128 ->
            (CASE sub = 0 -> op_ldxy(self, lo(op0), hi(op1))
               [] sub = 1 -> op_orxy(self, lo(op0), hi(op1))
               [] sub = 2 -> op_andxy(self, lo(op0), hi(op1))
               [] sub = 3 -> op_xorxy(self, lo(op0), hi(op1))
               [] sub = 4 -> op_addxy(self, lo(op0), hi(op1))
               [] sub = 5 -> op_subxy(self, lo(op0), hi(op1))
               [] sub = 6 -> op_shrxy(self, lo(op0))
               [] sub = 7 -> op_subnxy(self, lo(op0), hi(op1))
               [] sub = 14 -> op_shlxy(self, lo(op0))
               [] OTHER -> InvalidOp(self))
       [] group = 144 -> op_snexy(self, lo(op0), hi(op1))
       [] group = 160 -> op_ldi(self, nnn(op0, op1))
       [] group = 11 -> op_jp0(self, nnn(op0, op1))
       [] group = 192 -> op_rndx(self, lo(op0), op1, r)
       [] group = 208 -> op_drw(self, lo(op0), hi(op1), lo(op1))
       [] group = 224 ->
            (CASE op1 = 158 -> op_skpx(self, lo(op0), checks)
               [] op1 = 161 -> op_sknpx(self, lo(op0), checks)
               [] OTHER -> InvalidOp(self))
       [] group = 240 ->
            (CASE op1 = 7 -> op_ldxdt(self, lo(op0))
               [] op1 = 10 -> op_ldxk(self, lo(op0))
               [] op1 = 21 -> op_lddtx(self, lo(op0))
               [] op1 = 24 -> op_ldstx(self, lo(op0))
               [] op1 = 30 -> op_addix(self, lo(op0))
               [] op1 = 41 -> op_ldfx(self, lo(op0))
               [] op1 = 51 -> op_ldbx(self, lo(op0))
               [] op1 = 85 -> op_ldix(self, lo(op0))
               [] op1 = 101 -> op_ldxi(self, lo(op0))
               [] OTHER -> InvalidOp(self))
       [] OTHER -> InvalidOp(self)

\* Timers that wrap from 0 to 255.
tick_timers_wrapping(self) ==
  [self EXCEPT !.delay_timer = (self.delay_timer - 1) % 256,
               !.sound_timer = (self.sound_timer - 1) % 256]

\* Timers that are not ticked when frame() is entered.
tick_timers_skipped(self) == self

\* frame(), lines 87-92: each timer goes down by one unless it is zero.
tick_timers(self) ==
  [self EXCEPT !.delay_timer = IF self.delay_timer # 0 THEN self.delay_timer - 1
                               ELSE self.delay_timer,
               !.sound_timer = IF self.sound_timer # 0 THEN self.sound_timer - 1
                               ELSE self.sound_timer]

\* Whether executing (op0, op1) shifts 1u16 by 16 or more (Ex9E and ExA1 with
\* V[x] >= 16), the one arithmetic overflow the interpreter can run into.
shift_overflows(self, op0, op1) ==
  /\ BitAnd(op0, 240) = 224
  /\ op1 \in {158, 161}
  /\ Reg(self, lo(op0)) >= 16

\* The check one byte too early.
pc_out_of_bounds_early(self) == self.pc >= MEMORY_SIZE - 2

\* frame(), line 95: the check before the fetch.
pc_out_of_bounds(self) == self.pc >= MEMORY_SIZE - 1

\* ---------------------------------------------------------- the inputs

\* Instruction encodings, as the two bytes of the ROM.
Ins(a, b, c, d) == <<a * 16 + b, c * 16 + d>>
LdV(x, byte) == <<96 + x, byte>>
LdI(addr) == <<160 + (addr \div 256), addr % 256>>
Drw(x, y, n) == Ins(13, x, y, n)

\* A sprite that uses all eight columns, followed by one byte of padding.
SpriteData == <<255, 129, 60, 1, 128, 170, 85, 255, 24, 36, 66, 129, 15, 240, 255, 0>>

\* ROMs that draw: an optional background glyph at (60, 30), which wraps on
\* both axes, then the same Dxyn twice with V[vx] = x, V[vy] = y and I = addr
\* (addr < 0: the sprite data that follows the code in the ROM).
DrawRom(bg, vx, vy, x, y, addr, n) ==
  LET back == IF bg THEN LdI(40) \o LdV(0, 60) \o LdV(1, 30) \o Drw(0, 1, 5) ELSE << >>
      at == IF addr < 0 THEN RESERVED_MEMORY_SIZE + Len(back) + 10 ELSE addr
  IN back \o LdV(vx, x) \o LdV(vy, y) \o LdI(at) \o Drw(vx, vy, n) \o Drw(vx, vy, n)
       \o SpriteData

DrawRoms ==
  { DrawRom(bg, 0, 1, x, y, addr, n) :
      bg \in BOOLEAN, x \in {0, 5, 59, 63, 200}, y \in {0, 20, 31, 40},
      addr \in {0, -1}, n \in {0, 1, 5, 15} }
  \cup { DrawRom(bg, 3, 15, 5, y, addr, 5) : bg \in BOOLEAN, y \in {0, 31}, addr \in {0, -1} }
  \cup { DrawRom(FALSE, 0, 1, 5, 5, 4090, 15) }

\* ROMs that load two registers, apply one register-register operation and
\* wait for a key.
AluRom(x, y, a, b, k) == LdV(x, a) \o LdV(y, b) \o Ins(8, x, y, k) \o Ins(15, 2, 0, 10)

AluRoms ==
  { AluRom(x, y, a, b, k) :
      x \in {0, 1, 15}, y \in {0, 1, 15}, a \in {0, 1, 100, 128, 200, 255},
      b \in {0, 1, 100, 128, 200, 255}, k \in {4, 5, 7} }

\* ROMs that wait for a key into V[x], after 0, 1 or 2 other instructions, and
\* then add 1 to V[x].
KeyRom(lead, x) ==
  (IF lead >= 1 THEN LdV(x, 9) ELSE << >>) \o (IF lead >= 2 THEN LdI(80) ELSE << >>)
    \o Ins(15, x, 0, 10) \o Ins(7, x, 0, 1)

KeyRoms == { KeyRom(lead, x) : lead \in 0..2, x \in {0, 5, 15} }

\* ROMs of a given length: a key wait, then bytes that are never zero.
FillRom(len, seed) ==
  [k \in 1..len |-> IF k = 1 THEN 240 ELSE IF k = 2 THEN 10 ELSE ((k * seed) % 255) + 1]

LoadRoms ==
  { FillRom(len, seed) :
      len \in {0, 1, 2, 100, MEMORY_SIZE - RESERVED_MEMORY_SIZE - 1,
               MEMORY_SIZE - RESERVED_MEMORY_SIZE,
               MEMORY_SIZE - RESERVED_MEMORY_SIZE + 1,
               MEMORY_SIZE - RESERVED_MEMORY_SIZE + 2, MEMORY_SIZE},
      seed \in {7, 31} }

\* ROMs that set V0 = 42, then hold one opcode (op0, op1), then an instruction
\* that sets V1 = 7.
DecodeRom(op0, op1) == LdV(0, 42) \o <<op0, op1>> \o LdV(1, 7)

DecodeOp0 ==
  {0, 15, 18, 47, 48, 64, 80, 96, 112, 128, 143, 144, 160, 176, 178, 191, 192,
   224, 239, 240, 243}

DecodeOp1 ==
  {0, 2, 7, 8, 10, 14, 15, 21, 24, 30, 41, 51, 85, 101, 158, 159, 161, 224,
   225, 238, 255}

DecodeRoms == { DecodeRom(op0, op1) : op0 \in DecodeOp0, op1 \in DecodeOp1 }

\* ROMs that fill the program region: a jump to target, zeros, and the four
\* bytes tail at the addresses 4092..4095.
FetchRom(target, tail) ==
  [k \in 1..(MEMORY_SIZE - RESERVED_MEMORY_SIZE) |->
     IF k = 1 THEN 16 + (target \div 256)
     ELSE IF k = 2 THEN target % 256
     ELSE IF k > MEMORY_SIZE - RESERVED_MEMORY_SIZE - 4
          THEN tail[k - (MEMORY_SIZE - RESERVED_MEMORY_SIZE - 4)]
          ELSE 0]

\* The tails: a skip taken and a load at 4092; at 4094 a skip taken, a load, a
\* jump to itself, a key wait, a clear screen, a skip not taken.
FetchTails ==
  { LdV(0, 5) \o Ins(3, 0, 0, 5), Ins(3, 0, 0, 0) \o LdV(0, 1),
    LdV(0, 5) \o Ins(1, 15, 15, 14), Ins(3, 0, 0, 0) \o Ins(15, 0, 0, 10),
    LdV(1, 3) \o Ins(0, 0, 14, 0), Ins(4, 0, 0, 0) \o Ins(4, 0, 0, 0) }

FetchRoms == { FetchRom(target, tail) : target \in 4092..4095, tail \in FetchTails }

\* ROMs that set V0 and V1, point I at addr, run one Fx instruction (op1 its
\* second byte) and wait for a key.
FontRom(v, addr, x, op1) ==
  LdV(0, v) \o LdV(1, 255 - v) \o LdI(addr) \o <<240 + x, op1>> \o Ins(15, 2, 0, 10)

FontRoms ==
  { FontRom(v, addr, x, op1) :
      v \in {0, 15, 137}, addr \in {0, 4, 77, 78, 79, 80, 600}, x \in {0, 1},
      op1 \in {30, 41, 51, 85, 101} }

\* ROMs that write n to one timer and m to the other (the delay timer first
\* unless swap), end the frame with an empty draw, read the delay timer into V2
\* at the start of the next frame and wait for a key.
TimerRom(n, m, swap) ==
  LdV(0, n) \o LdV(1, m)
    \o (IF swap THEN Ins(15, 1, 1, 8) \o Ins(15, 0, 1, 5)
        ELSE Ins(15, 0, 1, 5) \o Ins(15, 1, 1, 8))
    \o Drw(0, 0, 0) \o Ins(15, 2, 0, 7) \o Ins(15, 3, 0, 10)

TimerRoms == { TimerRom(n, m, swap) : n \in {0, 1, 2, 255}, m \in {0, 1, 3}, swap \in BOOLEAN }

\* The ROM that clears the screen and then jumps to the jump itself, at 514.
LoopRom == Ins(0, 0, 14, 0) \o Ins(1, 2, 0, 2)

LoopRoms == {LoopRom}

\* The ROM of the single instruction 00E0, and ROMs that draw n rows of the
\* font at (x, y), which ends the frame, and then hold 00E0 as their last
\* instruction.
ClsRom == Ins(0, 0, 14, 0)
DrawClsRom(x, y, n) == LdV(0, x) \o LdV(1, y) \o LdI(5) \o Drw(0, 1, n) \o ClsRom

ClsRoms ==
  {ClsRom} \cup { DrawClsRom(x, y, n) : x \in {0, 29, 60}, y \in {0, 20, 30}, n \in {1, 5, 15} }

\* The six conditional skips, on V0 and the byte 5 or on V0 and V[y].
SkipOps(y) ==
  { Ins(3, 0, 0, 5), Ins(4, 0, 0, 5), Ins(5, 0, y, 0), Ins(9, 0, y, 0),
    Ins(14, 0, 9, 14), Ins(14, 0, 10, 1) }

\* ROMs that set V0 = a and V1 = b, run one skip and wait for a key at both
\* places the skip can lead to.
SkipRom(a, b, skip) ==
  LdV(0, a) \o LdV(1, b) \o skip \o Ins(15, 2, 0, 10) \o Ins(15, 2, 0, 10)

SkipRoms ==
  { SkipRom(a, b, skip) : a \in {0, 1, 5, 15, 17}, b \in {1, 5}, skip \in SkipOps(0) \cup SkipOps(1) }

\* ROMs that call: NestRom nests two calls (512 calls 518, which calls 524)
\* around the instruction body; TwiceRom calls the subroutine at 520 from 512
\* and from 514; RecurseRom calls itself for ever.
NestRom(body) ==
  Ins(2, 2, 0, 6) \o Ins(15, 2, 0, 10) \o Ins(0, 0, 0, 0)
    \o Ins(2, 2, 0, 12) \o body \o Ins(0, 0, 14, 14)
    \o body \o Ins(0, 0, 14, 14)

TwiceRom(body) ==
  Ins(2, 2, 0, 8) \o Ins(2, 2, 0, 8) \o Ins(15, 2, 0, 10) \o Ins(0, 0, 0, 0)
    \o body \o Ins(0, 0, 14, 14)

RecurseRom == Ins(2, 2, 0, 0)

\* The instructions in the subroutines: one of every kind that neither jumps
\* nor skips.
CallBodies ==
  { LdV(0, 3), Ins(7, 0, 0, 1), Ins(8, 0, 1, 4), Ins(8, 0, 1, 6), LdI(600),
    Ins(12, 0, 15, 15), Drw(0, 1, 1), Ins(15, 0, 0, 7), Ins(15, 0, 1, 5),
    Ins(15, 0, 1, 8), Ins(15, 0, 1, 14), Ins(15, 0, 2, 9), Ins(15, 0, 3, 3),
    Ins(15, 1, 5, 5), Ins(15, 1, 6, 5), Ins(0, 0, 14, 0), Ins(3, 0, 0, 9),
    Ins(14, 0, 9, 14) }

CallRoms ==
  { NestRom(body) : body \in CallBodies } \cup { TwiceRom(body) : body \in CallBodies }
    \cup {RecurseRom}

\* ROMs that set V0, V1, V3 and V15, point I at addr, store V0..V[x] (unless
\* only loading), load V0..V[x] and wait for a key.
BulkRom(a, addr, x, store) ==
  LdV(0, a) \o LdV(1, a + 1) \o LdV(3, 200) \o LdV(15, a + 2) \o LdI(addr)
    \o (IF store THEN Ins(15, x, 5, 5) ELSE << >>) \o Ins(15, x, 6, 5)
    \o Ins(15, 7, 0, 10)

BulkRoms ==
  { BulkRom(a, addr, x, store) :
      a \in {0, 77}, addr \in {0, 600, 4080, 4092, 4095}, x \in {0, 3, 15},
      store \in BOOLEAN }

\* The instruction ins repeated count times.
Repeat(ins, count) == [k \in 1..(2 * count) |-> ins[((k - 1) % 2) + 1]]

\* ROMs that run 620 times the same cheap instruction and jump back to 512:
\* a load (the cheapest instruction), an add, a load of I, a skip not taken.
CheapOps == { LdV(0, 0), Ins(7, 0, 0, 0), LdI(0), Ins(4, 0, 0, 0) }

RunRom(ins) == Repeat(ins, 620) \o Ins(1, 2, 0, 0)

\* The ROMs on which the budget is followed: the runs, and one ROM for every
\* opcode of the decoding table.
BudgetRoms == { RunRom(ins) : ins \in CheapOps } \cup DecodeRoms

Roms ==
  DrawRoms \cup AluRoms \cup KeyRoms \cup LoadRoms \cup DecodeRoms \cup FetchRoms
    \cup FontRoms \cup TimerRoms \cup LoopRoms \cup ClsRoms
    \cup SkipRoms \cup CallRoms \cup BulkRoms \cup BudgetRoms

\* The keypad masks the host hands over: no key; the keys 1, 2 and 15.
Keypads == {0, 32774}

\* The bytes the random generator yields.
RngBytes == {0, 165, 255}

\* ------------------------------------------------------------ the state

VARIABLES
  chip8,            \* the Chip8 struct
  rom,              \* the bytes of the ROM file main() reads
  overflow_checks,  \* whether the build panics on arithmetic overflow: "on" or
                    \* "off", "unknown" until the first overflow shows which
  phase,            \* "start", "idle" (between frames), "frame", "exit"
  outcome,          \* how the last call ended: "ok", "capacity", "oob", "invalid", "panic"
  time,             \* frame()'s local: the budget left
  frames,           \* the frame() calls made
  executed,         \* the instructions fetched in the current frame() call
  last,             \* the instruction fetched last, last2 the one before it
  last2,
  pre,              \* chip8 before last was fetched, pre2 before last2 was
  pre2,
  at_frame          \* chip8 when the current frame() call was entered

vars ==
  <<chip8, rom, overflow_checks, phase, outcome, time, frames, executed, last, last2,
    pre, pre2, at_frame>>

NoInstr == [op0 |-> 0, op1 |-> 0, at |-> 0, kind |-> "none", cost |-> 0, frame |-> 0]

\* main(), lines 59-64 and 116: the ROM file is read and the interpreter made.
InitWith(roms) ==
  /\ rom \in roms
  /\ overflow_checks = "unknown"
  /\ chip8 = new
  /\ phase = "start"
  /\ outcome = "none"
  /\ time = 0
  /\ frames = 0
  /\ executed = 0
  /\ last = NoInstr
  /\ last2 = NoInstr
  /\ pre = new
  /\ pre2 = new
  /\ at_frame = new

Init == InitWith(Roms)

\* main(), line 65: chip8.load_rom(&rom)?
LoadRom ==
  /\ phase = "start"
  /\ LET loaded == load_rom(chip8, rom)
     IN /\ chip8' = loaded.self
        /\ phase' = IF loaded.ok THEN "idle" ELSE "exit"
        /\ outcome' = IF loaded.ok THEN "ok" ELSE "capacity"
  /\ pre' = chip8
  /\ UNCHANGED <<rom, overflow_checks, time, frames, executed, last, last2, pre2, at_frame>>

\* main(), lines 181-183, and frame() up to its loop: the host stores the
\* keypad mask, frame() ticks the timers and sets the budget.
FrameBegin ==
  /\ phase = "idle"
  /\ frames < MaxFrames
  /\ \E keys \in Keypads :
       LET entered == [chip8 EXCEPT !.keypad = keys]
       IN /\ at_frame' = entered
          /\ chip8' = tick_timers(entered)
  /\ time' = FRAME_DURATION
  /\ frames' = frames + 1
  /\ executed' = 0
  /\ phase' = "frame"
  /\ outcome' = "pending"
  /\ UNCHANGED <<rom, overflow_checks, last, last2, pre, pre2>>

\* One iteration of frame()'s loop: the bounds check, the fetch, pc += 2,
\* step() and the budget.  An error or a panic ends the process (main()
\* returns the error).
Step ==
  /\ phase = "frame"
  /\ time > 0
  /\ IF pc_out_of_bounds(chip8)
     THEN /\ phase' = "exit"
          /\ outcome' = "oob"
          /\ UNCHANGED <<chip8, overflow_checks, time, executed, last, last2, pre, pre2>>
     ELSE LET op0 == chip8.memory[chip8.pc]
              op1 == chip8.memory[chip8.pc + 1]
              fetched == [chip8 EXCEPT !.pc = chip8.pc + 2]
              builds == IF ~shift_overflows(chip8, op0, op1) THEN {overflow_checks}
                        ELSE IF overflow_checks = "unknown" THEN {"on", "off"}
                        ELSE {overflow_checks}
          IN \E r \in (IF BitAnd(op0, 240) = 192 THEN RngBytes ELSE {0}), build \in builds :
               LET res == step(fetched, op0, op1, r, build = "on")
               IN /\ Len(res.self.stack) <= MaxStack
                  /\ overflow_checks' = build
                  /\ chip8' = res.self
                  /\ last' = [op0 |-> op0, op1 |-> op1, at |-> chip8.pc,
                              kind |-> res.kind, cost |-> res.cost, frame |-> frames]
                  /\ last2' = last
                  /\ pre' = chip8
                  /\ pre2' = pre
                  /\ executed' = executed + 1
                  /\ time' = time - res.cost
                  /\ phase' = IF res.kind = "ok" THEN "frame" ELSE "exit"
                  /\ outcome' = IF res.kind = "ok" THEN outcome ELSE res.kind
  /\ UNCHANGED <<rom, frames, at_frame>>

\* frame(), line 104: the budget is used up and frame() returns Ok(()).
FrameEnd ==
  /\ phase = "frame"
  /\ time <= 0
  /\ phase' = "idle"
  /\ outcome' = "ok"
  /\ UNCHANGED <<chip8, rom, overflow_checks, time, frames, executed, last, last2, pre,
                 pre2, at_frame>>

Next == LoadRom \/ FrameBegin \/ Step \/ FrameEnd

Spec == Init /\ [][Next]_vars

\* The same program on the ROMs of one family.
SpecDraw == InitWith(DrawRoms) /\ [][Next]_vars
SpecAlu == InitWith(AluRoms) /\ [][Next]_vars
SpecKey == InitWith(KeyRoms) /\ [][Next]_vars
SpecLoad == InitWith(LoadRoms) /\ [][Next]_vars
SpecDecode == InitWith(DecodeRoms) /\ [][Next]_vars
SpecFetch == InitWith(FetchRoms) /\ [][Next]_vars
SpecFont == InitWith(FontRoms) /\ [][Next]_vars
SpecTimer == InitWith(TimerRoms) /\ [][Next]_vars
SpecLoop == InitWith(LoopRoms) /\ [][Next]_vars
SpecCls == InitWith(ClsRoms) /\ [][Next]_vars
SpecSkip == InitWith(SkipRoms) /\ [][Next]_vars
SpecCall == InitWith(CallRoms) /\ [][Next]_vars
SpecBulk == InitWith(BulkRoms) /\ [][Next]_vars
SpecBudget == InitWith(BudgetRoms) /\ [][Next]_vars

\* ------------------------------------------------------- the properties

\* The fields of a fetched instruction.
GroupOf(ins) == BitAnd(ins.op0, 240)
XOf(ins) == lo(ins.op0)
YOf(ins) == hi(ins.op1)
NOf(ins) == lo(ins.op1)
NnnOf(ins) == (ins.op0 % 16) * 256 + ins.op1

\* The pixel at (col, row) of a packed display: eight pixels to a byte, the
\* leftmost in bit 7 (main.rs, lines 186-190).
Pixel(display, col, row) == Bit(display[row * 8 + (col \div 8)], 7 - (col % 8))

Columns == 0..63
Rows == 0..31

\* Whether the state is the one the instruction last has just left: later
\* states of the host loop (FrameEnd, FrameBegin) keep last but tick the timers
\* and store the keypad.
Fresh == phase = "frame" /\ executed > 0

\* Whether ins is a Dxyn that ran to its end.
Drew(ins) == ins.kind = "ok" /\ GroupOf(ins) = 208

\* The bit the sprite of the draw ins, made in state before, puts on (col, row):
\* the sprite row is (row - Y) mod 32 and its column (col - X) mod 64, when
\* these are below n and 8; column 0 is the most significant bit.
SpriteBit(ins, before, col, row) ==
  LET r == (row - before.registers[YOf(ins)]) % 32
      b == (col - before.registers[XOf(ins)]) % 64
  IN IF r < NOf(ins) /\ b < 8 THEN Bit(before.memory[before.i + r], 7 - b) ELSE 0

\* C1 (as claimed): after a draw, register 15 is 1 if and only if some pixel
\* that was set before the draw is clear after it, and 0 otherwise.
C1_CollisionFlag ==
  (Fresh /\ Drew(last)) =>
    chip8.registers[15] =
      IF \E col \in Columns, row \in Rows :
           Pixel(pre.display, col, row) = 1 /\ Pixel(chip8.display, col, row) = 0
      THEN 1 ELSE 0

\* What the code computes instead: register 15 is 1 if and only if the draw has
\* set some pixel that was clear before it.
DrawFlagIsPixelSet ==
  (Fresh /\ Drew(last)) =>
    chip8.registers[15] =
      IF \E col \in Columns, row \in Rows :
           Pixel(pre.display, col, row) = 0 /\ Pixel(chip8.display, col, row) = 1
      THEN 1 ELSE 0

\* Whether last2 and last are the same Dxyn, made in succession with the same
\* I, the same position and the same sprite bytes.
DrewTwice ==
  /\ Fresh
  /\ Drew(last2)
  /\ Drew(last)
  /\ last.op0 = last2.op0
  /\ last.op1 = last2.op1
  /\ pre.i = pre2.i
  /\ pre.registers[XOf(last)] = pre2.registers[XOf(last)]
  /\ pre.registers[YOf(last)] = pre2.registers[YOf(last)]
  /\ \A r \in 0..(NOf(last) - 1) : pre.memory[pre.i + r] = pre2.memory[pre2.i + r]

\* C5: the same Dxyn executed twice in succession, with I, the sprite bytes
\* and the position registers the same at both draws, leaves the framebuffer
\* byte for byte as it was before the first draw.
C5_DrawTwiceRestores == DrewTwice => chip8.display = pre2.display

\* C5's case: a second draw has undone a first one that changed a framebuffer
\* that was not empty.
C5_Witness ==
  /\ DrewTwice
  /\ pre.display # pre2.display
  /\ pre2.display # new.display
  /\ chip8.display = pre2.display

\* C6: a draw at (X, Y) = (Vx, Vy) toggles the pixel at column (X + b) mod 64,
\* row (Y + r) mod 32 exactly when bit b (0 the most significant) of
\* memory[I + r] is 1, for r < n and b < 8, and changes no other pixel.
C6_DrawPlacement ==
  (Fresh /\ Drew(last)) =>
    \A col \in Columns, row \in Rows :
      (Pixel(chip8.display, col, row) # Pixel(pre.display, col, row))
        <=> (SpriteBit(last, pre, col, row) = 1)

\* C6's case: a draw whose sprite overflows the right and the bottom edge has
\* toggled a pixel left of and above its position.
C6_Witness ==
  /\ Fresh
  /\ Drew(last)
  /\ (pre.registers[XOf(last)] % 64) + 8 > 64
  /\ (pre.registers[YOf(last)] % 32) + NOf(last) > 32
  /\ \E col \in Columns, row \in Rows :
       /\ col < pre.registers[XOf(last)] % 64
       /\ row < pre.registers[YOf(last)] % 32
       /\ Pixel(chip8.display, col, row) # Pixel(pre.display, col, row)

\* C2 (as claimed): a fetched Bnnn is executed, sets PC to nnn + V0 and leaves
\* the registers, I, the stack, the memory and the framebuffer as they were.
C2_IndexedJump ==
  (last.kind # "none" /\ GroupOf(last) = 176) =>
    /\ last.kind = "ok"
    /\ phase # "exit"
    /\ chip8.pc = NnnOf(last) + pre.registers[0]
    /\ chip8.registers = pre.registers
    /\ chip8.i = pre.i
    /\ chip8.stack = pre.stack
    /\ chip8.memory = pre.memory
    /\ chip8.display = pre.display

\* Whether the current frame() call was entered with PC at a key wait (Fx0A).
EnteredAtKeyWait ==
  /\ frames > 0
  /\ at_frame.pc < 4095
  /\ at_frame.memory[at_frame.pc] \div 16 = 15
  /\ at_frame.memory[at_frame.pc + 1] = 10

\* The register a key wait entered at stores into.
KeyWaitTarget == at_frame.memory[at_frame.pc] % 16

\* The index of the lowest bit set in a mask that is not 0.
LowestKey(mask) ==
  CHOOSE k \in 0..15 : Bit(mask, k) = 1 /\ \A j \in 0..(k - 1) : Bit(mask, j) = 0

\* C3: a frame() call entered at a key wait with keypad mask 0 does not fail,
\* and returns Ok with PC and the target register as at its entry; one entered
\* at a key wait with a mask that is not 0 has, after its first instruction,
\* the index of the lowest set bit in the target register and PC past the wait.
C3_KeyWaitBlocks ==
  EnteredAtKeyWait =>
    /\ at_frame.keypad = 0 =>
         /\ phase # "exit"
         /\ executed <= 1
         /\ (phase = "idle" \/ executed = 1) =>
              /\ chip8.pc = at_frame.pc
              /\ chip8.registers[KeyWaitTarget] = at_frame.registers[KeyWaitTarget]
         /\ phase = "idle" => (outcome = "ok" /\ executed = 1)
    /\ (at_frame.keypad # 0 /\ executed = 1) =>
         /\ last.kind = "ok"
         /\ chip8.registers[KeyWaitTarget] = LowestKey(at_frame.keypad)
         /\ chip8.pc = at_frame.pc + 2

\* C3's case: the third call, after two calls that blocked on the key wait at
\* 512 with no key down, has stored key 1 of the mask with keys 1, 2 and 15.
C3_Witness ==
  /\ EnteredAtKeyWait
  /\ frames = 3
  /\ at_frame.pc = 512
  /\ at_frame.keypad = 32774
  /\ executed = 1
  /\ KeyWaitTarget = 5
  /\ at_frame.registers[5] = 0
  /\ chip8.registers[5] = 1
  /\ chip8.pc = 514

\* Whether ins, fetched in state before, is a key wait that found no key down.
KeyWaitBlocked(ins, before) ==
  /\ ins.kind = "ok"
  /\ GroupOf(ins) = 240
  /\ ins.op1 = 10
  /\ before.keypad = 0

\* C4 (as claimed): a key wait that finds no key down costs the whole frame
\* budget and is the only instruction of its frame() call.
C4_OnlyInstruction ==
  (KeyWaitBlocked(last, pre) /\ last.frame = frames) =>
    /\ last.cost = 16666
    /\ time <= 0
    /\ executed = 1

\* C4 (amended): a key wait that finds no key down costs the whole frame
\* budget and is the last instruction of its frame() call: the budget left is
\* at most 0 after it and the instruction fetched next is fetched by a later
\* call.
C4_LastInstruction ==
  /\ (KeyWaitBlocked(last, pre) /\ last.frame = frames) =>
       /\ last.cost = 16666
       /\ time <= 0
  /\ (KeyWaitBlocked(last2, pre2) /\ last.kind # "none") => last.frame > last2.frame

\* C4's case: a key wait has found no key down after another instruction of
\* the same call, and the call has returned.
C4_Witness ==
  /\ KeyWaitBlocked(last, pre)
  /\ last.frame = frames
  /\ executed = 2
  /\ last2.frame = frames
  /\ phase = "idle"
  /\ outcome = "ok"

\* Whether ins is the register-register operation 8xyk, executed.
Alu(ins, k) == ins.kind = "ok" /\ GroupOf(ins) = 128 /\ ins.op1 % 16 = k /\ Fresh

\* C7 (as claimed): after 8xy4, Vx is (a + b) mod 256 and V15 is 1 if
\* a + b > 255, else 0, for every x and y in 0..15.
C7_AddEveryRegister ==
  Alu(last, 4) =>
    LET a == pre.registers[XOf(last)]
        b == pre.registers[YOf(last)]
    IN /\ chip8.registers[XOf(last)] = (a + b) % 256
       /\ chip8.registers[15] = IF a + b > 255 THEN 1 ELSE 0

\* C7 (amended): after 8xy4, V15 is 1 if a + b > 255, else 0, and Vx is
\* (a + b) mod 256 when x is not 15.
C7_Add ==
  Alu(last, 4) =>
    LET a == pre.registers[XOf(last)]
        b == pre.registers[YOf(last)]
    IN /\ XOf(last) # 15 => chip8.registers[XOf(last)] = (a + b) % 256
       /\ chip8.registers[15] = IF a + b > 255 THEN 1 ELSE 0

\* C7's case: an addition into a register other than V15 has carried.
C7_Witness ==
  /\ Alu(last, 4)
  /\ XOf(last) # 15
  /\ pre.registers[XOf(last)] + pre.registers[YOf(last)] > 255
  /\ chip8.registers[XOf(last)] = pre.registers[XOf(last)] + pre.registers[YOf(last)] - 256
  /\ chip8.registers[15] = 1

\* C8 (as claimed): after 8xy5, Vx is (a - b) mod 256 and V15 is 1 iff a >= b;
\* after 8xy7, Vx is (b - a) mod 256 and V15 is 1 iff b >= a; for every x, y.
C8_SubEveryRegister ==
  LET a == pre.registers[XOf(last)]
      b == pre.registers[YOf(last)]
  IN /\ Alu(last, 5) =>
          /\ chip8.registers[XOf(last)] = (a - b) % 256
          /\ chip8.registers[15] = IF a >= b THEN 1 ELSE 0
     /\ Alu(last, 7) =>
          /\ chip8.registers[XOf(last)] = (b - a) % 256
          /\ chip8.registers[15] = IF b >= a THEN 1 ELSE 0

\* C8 (amended): after 8xy5, V15 is 1 iff a >= b and, when x is not 15, Vx is
\* (a - b) mod 256; after 8xy7, V15 is 1 iff b >= a and, when x is not 15, Vx
\* is (b - a) mod 256.
C8_Sub ==
  LET a == pre.registers[XOf(last)]
      b == pre.registers[YOf(last)]
  IN /\ Alu(last, 5) =>
          /\ XOf(last) # 15 => chip8.registers[XOf(last)] = (a - b) % 256
          /\ chip8.registers[15] = IF a >= b THEN 1 ELSE 0
     /\ Alu(last, 7) =>
          /\ XOf(last) # 15 => chip8.registers[XOf(last)] = (b - a) % 256
          /\ chip8.registers[15] = IF b >= a THEN 1 ELSE 0

\* C8's case: an 8xy7 into a register other than V15 has borrowed.
C8_Witness ==
  /\ Alu(last, 7)
  /\ XOf(last) # 15
  /\ pre.registers[YOf(last)] < pre.registers[XOf(last)]
  /\ chip8.registers[XOf(last)] = pre.registers[YOf(last)] - pre.registers[XOf(last)] + 256
  /\ chip8.registers[15] = 0

\* C9: right after load_rom, a ROM of at most 3584 bytes is in memory from 512
\* on with every other byte of the memory as before, and load_rom returned Ok;
\* a ROM of 3585 bytes or more gives the capacity error and changes nothing.
C9_LoadCapacity ==
  (phase # "start" /\ frames = 0) =>
    IF Len(rom) <= 3584
    THEN /\ outcome = "ok"
         /\ phase = "idle"
         /\ \A k \in 0..(Len(rom) - 1) : chip8.memory[512 + k] = rom[k + 1]
         /\ \A a \in 0..4095 :
              (a < 512 \/ a >= 512 + Len(rom)) => chip8.memory[a] = pre.memory[a]
    ELSE /\ outcome = "capacity"
         /\ phase = "exit"
         /\ chip8 = pre

\* C9's case: a ROM of exactly 3584 bytes has been loaded up to the last byte
\* of the memory.
C9_Witness ==
  /\ phase = "idle"
  /\ frames = 0
  /\ Len(rom) = 3584
  /\ chip8.memory[4095] = rom[3584]
  /\ chip8.memory[4095] # 0
  /\ chip8.memory[0] = 240

\* The opcodes C10 lists as matching no known encoding.
NotInTable(op0, op1) ==
  \/ op0 \div 16 = 0 /\ op1 \notin {224, 238}
  \/ op0 \div 16 = 8 /\ (op1 % 16) \notin (0..7) \cup {14}
  \/ op0 \div 16 = 14 /\ op1 \notin {158, 161}
  \/ op0 \div 16 = 15 /\ op1 \notin {7, 10, 21, 24, 30, 41, 51, 85, 101}

\* Whether the instruction fetched last was refused as invalid: frame() has
\* returned the error, and nothing but PC differs from the state before it.
RefusedLast ==
  /\ last.kind = "invalid"
  /\ phase = "exit"
  /\ outcome = "invalid"
  /\ chip8 = [pre EXCEPT !.pc = pre.pc + 2]

\* C10 (as claimed): an opcode that matches no known encoding makes frame()
\* return an error at once with the registers, I, the stack, the memory and
\* the framebuffer unchanged, and every other opcode never gives this error.
C10_InvalidOpcodeFatal ==
  last.kind # "none" =>
    IF NotInTable(last.op0, last.op1) THEN RefusedLast ELSE last.kind # "invalid"

\* What the code does: the opcodes refused are those C10 lists and every Bnnn.
InvalidOpcodesOfTheCode ==
  last.kind # "none" =>
    IF NotInTable(last.op0, last.op1) \/ last.op0 \div 16 = 11 THEN RefusedLast
    ELSE last.kind # "invalid"
\* Whether frame() is at the top of its loop with the budget not used up.
AtLoopTop == phase = "frame" /\ time > 0

\* What the loop does when it refuses to fetch: frame() returns the error, and
\* no instruction is fetched or executed.
RefusesFetch ==
  /\ phase' = "exit"
  /\ outcome' = "oob"
  /\ chip8' = chip8
  /\ executed' = executed
  /\ last' = last
  /\ time' = time

\* C11: every instruction is fetched from the two bytes at PC and PC + 1, both
\* inside the memory; frame() returns the out-of-bounds error only with
\* PC >= 4095, and whenever PC >= 4095 at the top of the loop it returns that
\* error without fetching or executing anything.
C11_FetchInBounds ==
  /\ [](last.kind # "none" =>
          /\ last.at >= 0
          /\ last.at + 1 <= MEMORY_SIZE - 1
          /\ last.op0 = pre.memory[last.at]
          /\ last.op1 = pre.memory[last.at + 1])
  /\ [](outcome = "oob" => chip8.pc >= MEMORY_SIZE - 1)
  /\ [][(AtLoopTop /\ chip8.pc >= MEMORY_SIZE - 1) => RefusesFetch]_vars

\* frame() has refused to fetch at a PC beyond the memory, which a skip or a
\* two-byte advance at the end of the memory left there.
C11_Witness ==
  /\ outcome = "oob"
  /\ chip8.pc > MEMORY_SIZE - 1
  /\ last.kind = "ok"
  /\ last.at = MEMORY_SIZE - 2

\* Whether ins is a return (00EE) fetched with the call stack before.
ReturnedOn(ins, before, depth) ==
  /\ ins.kind # "none"
  /\ GroupOf(ins) = 0
  /\ ins.op1 = 238
  /\ Len(before.stack) = depth

\* C12 (as claimed): a return fetched with an empty call stack ends the frame()
\* call with an error result handed to the caller, not with a crash; no
\* instruction follows it, and PC (past the return) and the stack are as the
\* fetch left them.
C12_UnderflowIsError ==
  ReturnedOn(last, pre, 0) =>
    /\ phase = "exit"
    /\ outcome # "panic"
    /\ last.kind # "panic"
    /\ chip8.pc = last.at + 2
    /\ chip8.stack = << >>

\* Whether the first 80 bytes of a memory are the font.
FontIntact(memory) == \A a \in 0..79 : memory[a] = FONT[a + 1]

\* Whether ins is the decimal store (Fx33) or the bulk store (Fx55).
StoresToMemory(ins) ==
  /\ ins.kind \in {"ok", "panic"}
  /\ GroupOf(ins) = 240
  /\ ins.op1 \in {51, 85}

\* The last address ins writes, with I as in before.
LastStored(ins, before) == before.i + (IF ins.op1 = 51 THEN 2 ELSE XOf(ins))

\* C13 (as claimed): the first 80 bytes of the memory are the font in every
\* state, whatever the ROM executes.
C13_FontImmutable == FontIntact(chip8.memory)

\* C13 (amended): the font is in place after new() and after load_rom, and a
\* byte of it changes only when Fx33 or Fx55 writes it, with I at or below it.
C13_FontChangedOnlyByStores ==
  /\ frames = 0 => FontIntact(chip8.memory)
  /\ \A a \in 0..79 :
       chip8.memory[a] # pre.memory[a] =>
         /\ StoresToMemory(last)
         /\ pre.i <= a
         /\ a <= LastStored(last, pre)

\* Fx55 with I below 80 has just overwritten bytes of a font that was intact.
C13_Witness ==
  /\ Fresh
  /\ StoresToMemory(last)
  /\ last.op1 = 85
  /\ pre.i < 80
  /\ FontIntact(pre.memory)
  /\ ~FontIntact(chip8.memory)

\* A timer value one tick later.
Ticked(t) == IF t > 0 THEN t - 1 ELSE 0

\* Whether ins is an Fx instruction with second byte op1 that ran to its end.
RanF(ins, op1) == ins.kind = "ok" /\ GroupOf(ins) = 240 /\ ins.op1 = op1

\* C14: when frame() is entered each timer is ticked once, a positive value
\* going down by one and zero staying zero, also in calls that end with an
\* error; an instruction changes the delay timer only if it is Fx15 and the
\* sound timer only if it is Fx18, which store V[x].
C14_TimerDecrement ==
  /\ (frames > 0 /\ executed = 0) =>
       /\ chip8.delay_timer = Ticked(at_frame.delay_timer)
       /\ chip8.sound_timer = Ticked(at_frame.sound_timer)
  /\ executed > 0 =>
       /\ chip8.delay_timer # pre.delay_timer =>
            RanF(last, 21) /\ chip8.delay_timer = pre.registers[XOf(last)]
       /\ chip8.sound_timer # pre.sound_timer =>
            RanF(last, 24) /\ chip8.sound_timer = pre.registers[XOf(last)]
       /\ (frames = last.frame /\ executed = 1) =>
            /\ pre.delay_timer = Ticked(at_frame.delay_timer)
            /\ pre.sound_timer = Ticked(at_frame.sound_timer)

\* A frame() call that was entered with both timers running, wrote neither
\* and returned an error: each timer is one below its value at entry.
C14_Witness ==
  /\ phase = "exit"
  /\ outcome = "invalid"
  /\ executed = 2
  /\ at_frame.delay_timer > 1
  /\ at_frame.sound_timer > 1
  /\ chip8.delay_timer = at_frame.delay_timer - 1
  /\ chip8.sound_timer = at_frame.sound_timer - 1

\* The timer that Fx15 (op1 = 21) or Fx18 (op1 = 24) writes.
TimerOf(self, op1) == IF op1 = 21 THEN self.delay_timer ELSE self.sound_timer

\* Whether ins writes a timer.
WritesTimer(ins) == RanF(ins, 21) \/ RanF(ins, 24)

\* Whether the frame() call has returned Ok and the instruction before its
\* last one wrote a positive value to a timer that its last one left alone.
ReturnedAfterTimerWrite ==
  /\ phase = "idle"
  /\ frames > 0
  /\ executed >= 2
  /\ last.frame = frames
  /\ last2.frame = frames
  /\ WritesTimer(last2)
  /\ ~WritesTimer(last)
  /\ pre2.registers[XOf(last2)] > 0

\* Whether the first instruction of the frame() call has just read the delay
\* timer (Fx07).
ReadDelayFirst == Fresh /\ executed = 1 /\ RanF(last, 7)

\* C15 (as claimed): the timers are ticked after the loop, so a value N > 0
\* written during a call is N - 1 when the call returns, and a read of the
\* delay timer at the start of a call yields the value the previous call left.
C15_TimersAfterLoop ==
  /\ ReturnedAfterTimerWrite =>
       TimerOf(chip8, last2.op1) = pre2.registers[XOf(last2)] - 1
  /\ ReadDelayFirst => chip8.registers[XOf(last)] = at_frame.delay_timer

\* C15 (amended): the timers are ticked before the loop, so a value N written
\* during a call is still N when the call returns, and a read of the delay
\* timer at the start of a call yields the value the previous call left,
\* ticked once.
C15_TimersBeforeLoop ==
  /\ ReturnedAfterTimerWrite =>
       TimerOf(chip8, last2.op1) = pre2.registers[XOf(last2)]
  /\ ReadDelayFirst => chip8.registers[XOf(last)] = Ticked(at_frame.delay_timer)

\* The first instruction of a call has read the delay timer: the previous call
\* returned with the value it held before its last instruction, and the read
\* yields one less.
C15_Witness ==
  /\ ReadDelayFirst
  /\ last2.frame = frames - 1
  /\ pre2.delay_timer > 1
  /\ at_frame.delay_timer = pre2.delay_timer
  /\ chip8.registers[XOf(last)] = at_frame.delay_timer - 1

\* The instructions one frame() call executes on LoopRom: the budget divided
\* by the cost of a jump, rounded up (the 109 of the clear screen in the first
\* call stand for one jump).
JumpsPerFrame == (FRAME_DURATION + 105 - 1) \div 105

\* C16: on the ROM 00E0 1202 no frame() call ends with an error, whatever the
\* keypad; beyond the clear screen every instruction executed is the jump at
\* 514, which leaves PC at 514; each call returns Ok with PC = 514 once the
\* jumps have used up the budget, and not before.
C16_SelfJumpNeverFails ==
  /\ phase # "exit"
  /\ outcome \in {"none", "ok", "pending"}
  /\ last.kind # "none" =>
       /\ last.kind = "ok"
       /\ chip8.pc = RESERVED_MEMORY_SIZE + 2
       /\ IF last.at = RESERVED_MEMORY_SIZE
          THEN last.op0 = 0 /\ last.op1 = 224 /\ frames = 1 /\ executed = 1
          ELSE /\ last.at = RESERVED_MEMORY_SIZE + 2
               /\ last.op0 = 18 /\ last.op1 = 2
               /\ last.cost = 105
  /\ (phase = "idle" /\ frames > 0) =>
       /\ outcome = "ok"
       /\ chip8.pc = RESERVED_MEMORY_SIZE + 2
       /\ executed = JumpsPerFrame
       /\ time <= 0
       /\ time + last.cost > 0

\* The third call in a row has returned Ok on the jump, with keys held.
C16_Witness ==
  /\ phase = "idle"
  /\ frames >= 3
  /\ outcome = "ok"
  /\ at_frame.keypad # 0
  /\ last.op0 = 18
  /\ chip8.pc = last.at

\* The display with no pixel set.
Blank == [d \in 0..(DISPLAY_SIZE - 1) |-> 0]

\* Whether the frame() call was entered with PC at a 00E0 that is the last
\* instruction in memory: every byte after it is zero.
EnteredAtLoneCls ==
  /\ frames > 0
  /\ at_frame.pc + 1 <= MEMORY_SIZE - 1
  /\ at_frame.memory[at_frame.pc] = 0
  /\ at_frame.memory[at_frame.pc + 1] = 224
  /\ \A a \in (at_frame.pc + 2)..(MEMORY_SIZE - 1) : at_frame.memory[a] = 0

\* C17: a frame() call entered at a lone 00E0 ends with every byte of the
\* display zero, whatever the display held before; and 00E0 itself changes
\* the display only (PC is past it, as the fetch left it).
C17_ClearScreen ==
  /\ (EnteredAtLoneCls /\ phase \in {"idle", "exit"}) => chip8.display = Blank
  /\ (Fresh /\ last.kind = "ok" /\ GroupOf(last) = 0 /\ last.op1 = 224) =>
       chip8 = [pre EXCEPT !.pc = last.at + 2, !.display = Blank]

\* A frame() call entered at a lone 00E0 with pixels set in both halves of the
\* display has ended, and the display is blank.
C17_Witness ==
  /\ EnteredAtLoneCls
  /\ phase \in {"idle", "exit"}
  /\ \E d \in 0..(DISPLAY_SIZE \div 2 - 1) : at_frame.display[d] # 0
  /\ \E d \in (DISPLAY_SIZE \div 2)..(DISPLAY_SIZE - 1) : at_frame.display[d] # 0
  /\ chip8.display = Blank

\* Whether key k is pressed in the state self: bit k of the keypad mask.
Pressed(self, k) == Bit(self.keypad, k) = 1

\* Whether ins is one of the six conditional skips, the key forms with V[x] a
\* key number, fetched in the state before.
IsSkip(ins, before) ==
  /\ ins.kind # "none"
  /\ \/ GroupOf(ins) \in {48, 64}
     \/ GroupOf(ins) \in {80, 144} /\ NOf(ins) = 0
     \/ /\ GroupOf(ins) = 224
        /\ ins.op1 \in {158, 161}
        /\ before.registers[XOf(ins)] \in 0..15

\* The condition of the skip ins in the state before.
SkipCondition(ins, before) ==
  LET x == before.registers[XOf(ins)]
      y == before.registers[YOf(ins)]
  IN CASE GroupOf(ins) = 48 -> x = ins.op1
       [] GroupOf(ins) = 64 -> x # ins.op1
       [] GroupOf(ins) = 80 -> x = y
       [] GroupOf(ins) = 144 -> x # y
       [] GroupOf(ins) = 224 /\ ins.op1 = 158 -> Pressed(before, x)
       [] OTHER -> ~Pressed(before, x)

\* The cost the claim gives for the skip ins, condition true or false.
SkipCost(ins, holds) ==
  CASE GroupOf(ins) \in {48, 64} -> IF holds THEN 64 ELSE 46
    [] GroupOf(ins) \in {80, 144} -> IF holds THEN 82 ELSE 64
    [] OTHER -> IF holds THEN 64 ELSE 82

\* C18: a conditional skip at address A leaves PC at A + 4 when its condition
\* holds and at A + 2 when it does not, changes nothing else, and costs 64/46
\* (immediate forms), 82/64 (register forms), 64/82 (key forms).
C18_ConditionalSkips ==
  (executed > 0 /\ phase \in {"frame", "exit"} /\ outcome # "oob" /\ IsSkip(last, pre)) =>
    LET holds == SkipCondition(last, pre)
    IN /\ last.kind = "ok"
       /\ chip8 = [pre EXCEPT !.pc = last.at + (IF holds THEN 4 ELSE 2)]
       /\ last.cost = SkipCost(last, holds)

\* ExA1 has just skipped, on a key that is up while other keys are down.
C18_Witness ==
  /\ Fresh
  /\ IsSkip(last, pre)
  /\ GroupOf(last) = 224
  /\ last.op1 = 161
  /\ pre.keypad # 0
  /\ ~Pressed(pre, pre.registers[XOf(last)])
  /\ chip8.pc = last.at + 4
  /\ last.cost = 64

\* Whether ins is a call (2nnn) that ran.
Called(ins) == ins.kind = "ok" /\ GroupOf(ins) = 32

\* Whether the opcode at address a of a memory is a call.
CallAt(memory, a) == a >= 0 /\ a <= MEMORY_SIZE - 1 /\ BitAnd(memory[a], 240) = 32

\* C19: a call at A appends A + 2 to the stack and sets PC to nnn; a return
\* on a non-empty stack removes the address pushed last and puts it in PC,
\* which is the address after a call; any other instruction, and the host
\* between two instructions, leaves the stack as it is.
C19_CallReturn ==
  /\ (executed > 0 /\ Called(last)) =>
       /\ chip8.stack = Append(pre.stack, last.at + 2)
       /\ chip8.pc = NnnOf(last)
  /\ (executed > 0 /\ \E depth \in 1..MaxStack : ReturnedOn(last, pre, depth)) =>
       /\ last.kind = "ok"
       /\ chip8.pc = pre.stack[Len(pre.stack)]
       /\ chip8.stack = SubSeq(pre.stack, 1, Len(pre.stack) - 1)
       /\ CallAt(pre.memory, chip8.pc - 2)
  /\ (executed > 0 /\ ~Called(last) /\ ~ReturnedOn(last, pre, Len(pre.stack))) =>
       chip8.stack = pre.stack
  /\ (frames > 0 /\ executed = 0) => chip8.stack = at_frame.stack
  /\ frames = 0 => chip8.stack = << >>

\* The inner of two nested calls has just returned to the address after it,
\* which is not the address the outer call pushed.
C19_Witness ==
  /\ Fresh
  /\ ReturnedOn(last, pre, 2)
  /\ pre.stack[1] # pre.stack[2]
  /\ chip8.pc = pre.stack[2]
  /\ chip8.stack = <<pre.stack[1]>>
  /\ CallAt(pre.memory, chip8.pc - 2)

\* Whether ins is a bulk store (op1 = 85) or load (op1 = 101) whose last
\* address I + x, with I as in before, is inside the memory.
BulkInMemory(ins, before, op1) ==
  /\ ins.kind # "none"
  /\ GroupOf(ins) = 240
  /\ ins.op1 = op1
  /\ before.i + XOf(ins) <= MEMORY_SIZE - 1

\* The memory after storing the registers 0..x of before at I.
BulkStored(before, x) ==
  [a \in 0..(MEMORY_SIZE - 1) |->
     IF a >= before.i /\ a <= before.i + x THEN before.registers[a - before.i]
     ELSE before.memory[a]]

\* The registers after loading the registers 0..x of before from I.
BulkLoaded(before, x) ==
  [r \in 0..(REGISTERS - 1) |-> IF r <= x THEN before.memory[before.i + r]
                                ELSE before.registers[r]]

\* C20: with I + x inside the memory, Fx55 stores V0..V[x] at I..I + x and
\* Fx65 loads them from there, V[x] included, and neither changes anything
\* else (PC is past the instruction); a store followed by a load with the same
\* x and I leaves the registers as they were before the store.
C20_BulkTransfers ==
  /\ (executed > 0 /\ BulkInMemory(last, pre, 85)) =>
       /\ last.kind = "ok"
       /\ chip8 = [pre EXCEPT !.pc = last.at + 2, !.memory = BulkStored(pre, XOf(last))]
  /\ (executed > 0 /\ BulkInMemory(last, pre, 101)) =>
       /\ last.kind = "ok"
       /\ chip8 = [pre EXCEPT !.pc = last.at + 2, !.registers = BulkLoaded(pre, XOf(last))]
  /\ (executed > 1 /\ BulkInMemory(last2, pre2, 85) /\ BulkInMemory(last, pre, 101)
        /\ XOf(last) = XOf(last2) /\ pre.i = pre2.i) =>
       chip8.registers = pre2.registers

\* All sixteen registers, not all zero, have just been loaded back from the
\* last sixteen bytes of the memory, where the instruction before stored them.
C20_Witness ==
  /\ Fresh
  /\ BulkInMemory(last2, pre2, 85)
  /\ BulkInMemory(last, pre, 101)
  /\ XOf(last) = 15
  /\ XOf(last2) = 15
  /\ pre.i + 15 = MEMORY_SIZE - 1
  /\ chip8.memory[MEMORY_SIZE - 1] = pre2.registers[15]
  /\ pre2.registers[15] # 0
  /\ chip8.registers = pre2.registers

\* The cost of the cheapest instruction, the load 6xnn.
MinCost == 27

\* The most instructions one budget pays for: the budget divided by the
\* cheapest cost, rounded up.
MaxInstructions == (FRAME_DURATION + MinCost - 1) \div MinCost

\* What one iteration of the loop that ran an instruction to its end does:
\* the call goes on or has used up its budget, one more instruction is
\* counted, and the budget left is lower by the cost, which is at least 27.
SpendsBudget ==
  (phase = "frame" /\ phase' = "frame" /\ executed' # executed) =>
    /\ time > 0
    /\ executed' = executed + 1
    /\ last'.kind = "ok"
    /\ last'.cost >= MinCost
    /\ time' = time - last'.cost
    /\ time' < time

\* C21: every instruction that runs to its end costs at least 27; every
\* iteration of the loop lowers the budget left, which starts at 16666; and
\* no frame() call, however it ends, executes more than 618 instructions.
C21_FrameTerminates ==
  /\ [](last.kind = "ok" => last.cost >= MinCost)
  /\ [](executed <= MaxInstructions)
  /\ []((phase = "frame" /\ executed = 0) => time = FRAME_DURATION)
  /\ [](phase = "frame" => time <= FRAME_DURATION - executed * MinCost)
  /\ [][SpendsBudget]_vars

\* A frame() call has returned Ok after 618 instructions, each at the lowest
\* cost.
C21_Witness ==
  /\ phase = "idle"
  /\ outcome = "ok"
  /\ executed = MaxInstructions
  /\ last.cost = MinCost
  /\ time = FRAME_DURATION - MaxInstructions * MinCost

\* Whether ins addresses memory through I: the draw, the decimal store, the
\* bulk store and the bulk load.
UsesIndex(ins) ==
  /\ ins.kind # "none"
  /\ \/ GroupOf(ins) = 208
     \/ GroupOf(ins) = 240 /\ ins.op1 \in {51, 85, 101}

\* The highest address ins uses, with I as in before: I + n - 1 for the draw,
\* I + 2 for the decimal store, I + x for the bulk transfers.
HighestIndexed(ins, before) ==
  before.i + (IF GroupOf(ins) = 208 THEN NOf(ins) - 1
              ELSE IF ins.op1 = 51 THEN 2
              ELSE XOf(ins))

\* C22 (as claimed): every address that a draw, a decimal store or a bulk
\* transfer uses is inside the memory, and none of them ends the frame() call
\* by a failed memory access.
C22_IndexInMemory ==
  UsesIndex(last) =>
    /\ HighestIndexed(last, pre) <= MEMORY_SIZE - 1
    /\ last.kind # "panic"

\* What the code does: such an instruction fails on its memory access exactly
\* when its highest address is beyond the memory.
IndexBeyondMemoryPanics ==
  UsesIndex(last) =>
    (last.kind = "panic" <=> HighestIndexed(last, pre) > MEMORY_SIZE - 1)

=============================================================================
